---- MODULE Spec2Model ----
(***************************************************************************)
(* Authentication and session lifecycle of go-react: the Auth Service      *)
(* (services/auth.go) over the Credential Store (models/user.go) and the   *)
(* Session Store (models/session.go), with the host's bootstrap and        *)
(* cleanup task (main.go).  Time is counted in minutes.                    *)
(***************************************************************************)
EXTENDS Integers, Sequences, FiniteSets, TLC

\* ---------------------------------------------------------------- constants

\* attempts >= 5 locks the account
LockThreshold == 5
\* lockTime := time.Now().Add(30 * time.Minute)
LockMinutes == 30
\* getEnvAsInt("TOKEN_EXPIRY_MINUTES", 60)
tokenExpiryMin == 60

\* expiryTime := time.Now().Add(24 * time.Hour)
ResetExpiryMinutes == 1440

\* ------------------------------------------------------------------- bounds

\* session tokens generateSecureToken hands out
MaxTokens == 2
\* the clock stops here
MaxTime == 61
\* the clock of the lockout scenarios stops here
MaxLockTime == 31
\* failed_login_attempts is not raised beyond this
MaxFailed == 6
\* the clock of the password-reset scenarios stops here
MaxResetTime == 1441

\* ------------------------------------------------------------------ domains

\* a nil *time.Time / NULL timestamp column
NoTime == -1
\* a nil *User / no row
NoUser == 0
\* a token no session was ever issued for
NoToken == 0

adminEmail == "admin@example.com"
adminUsername == "admin"
adminPassword == "admin_password"

\* what callers send: a username may look like an email address
Usernames == {adminUsername, adminEmail, "alice"}
Emails == {adminEmail, "alice"}
Identifiers == Usernames \cup Emails
Passwords == {adminPassword, "Secret123!"}
\* how far the clock may jump in one step
ClockSteps == {LockMinutes - 1, LockMinutes, LockMinutes + 1}

\* how far the clock may jump in one step of a password-reset scenario
RecoverySteps == {ResetExpiryMinutes - 1, ResetExpiryMinutes, ResetExpiryMinutes + 1}

\* email is UNIQUE: the table holds at most one row per email
MaxUsers == Cardinality(Emails)

VARIABLES
    users,      \* auth.users: sequence of rows, user_id = index
    sessions,   \* auth.sessions: set of rows
    audit,      \* auth.audit_log: number of "login" rows per user_id
    issued,     \* number of session tokens generated so far
    now,        \* the clock
    booted,     \* createAdminUser has run
    ret,        \* the last completed call, what it found and what it returned
    pc,         \* where each request in flight stands
    loc,        \* each request's arguments and local variables
    consec,     \* history: consecutive Logins per account that returned InvalidCredentials
    fifthAt,    \* history: when the account's latest 5th-or-later consecutive failure returned
    lockedAt,   \* history: when locked_until was last written for the account
    failCount,  \* history: password checks failed per account since its last RecordLogin
    loggedOut   \* history: tokens for which a Logout has completed

vars == <<users, sessions, audit, issued, now, booted, ret, pc, loc,
          consec, fifthAt, lockedAt, failCount, loggedOut>>

UserIds == 1..MaxUsers
\* the requests served at the same time
Procs == {1, 2}

\* the goroutine main starts with go scheduleSessionCleanup(ctx, sessionRepo)
CleanupTask == 3

\* the goroutine that runs main
MainThread == 4

Threads == Procs \cup {CleanupTask, MainThread}

\* ------------------------------------------------------------ pure helpers

\* bcrypt.GenerateFromPassword: a hash that CompareHashAndPassword accepts
\* for the same plaintext only
Hash(password) == <<"bcrypt", password>>

VerifyPassword(user, password) == user.passwordHash = Hash(password)

\* QueryRow(...).Scan: the first matching row, or no row
FirstRow(S) == IF S = {} THEN NoUser ELSE CHOOSE i \in S : \A j \in S : i <= j

GetByEmail(us, email) == FirstRow({i \in 1..Len(us) : us[i].email = email})

GetByUsername(us, username) == FirstRow({i \in 1..Len(us) : us[i].username = username})

GetByToken(ss, token) == {s \in ss : s.token = token}

\* the row INSERT INTO auth.users writes: the columns it does not list take
\* their defaults
NewUserRow(username, email, password, verified, active) ==
    [username |-> username, email |-> email, passwordHash |-> Hash(password),
     isEmailVerified |-> verified, emailVerificationToken |-> NoToken,
     passwordResetToken |-> NoToken, passwordResetExpiresAt |-> NoTime,
     failedLoginAttempts |-> 0, lockedUntil |-> NoTime, isActive |-> active]

\* a lock check that lets every Login through
IsLockedNever(user, t) == FALSE

\* user.LockedUntil != nil && time.Now().Before(*user.LockedUntil)
IsLocked(user, t) == user.lockedUntil # NoTime /\ t < user.lockedUntil

\* the increment done in the application: the value read earlier, plus one
IncrementFromRead(us, u, read) ==
    [us EXCEPT ![u].failedLoginAttempts = read.failedLoginAttempts + 1]

\* UPDATE auth.users SET failed_login_attempts = failed_login_attempts + 1
\* WHERE user_id = $1 RETURNING failed_login_attempts
\* (the new value is computed by the store from the stored value; the row
\* the caller read earlier, `read`, plays no part)
IncrementStmt(us, u, read) ==
    [us EXCEPT ![u].failedLoginAttempts = @ + 1]

\* UPDATE auth.users SET locked_until = $1 WHERE user_id = $2,
\* with $1 = time.Now().Add(30 * time.Minute)
LockStmt(us, u, t) ==
    [us EXCEPT ![u].lockedUntil = t + LockMinutes]

\* a threshold that is met by the 5th failure alone
ReachedThresholdOnce(attempts) == attempts = LockThreshold

\* the threshold tested with > in place of >=
ReachedThresholdLate(attempts) == attempts > LockThreshold

\* if attempts >= 5 { ... }
ReachedThreshold(attempts) == attempts >= LockThreshold

\* the whole of IncrementFailedLoginAttempts, run without interruption
IncrementFailedLoginAttempts(us, u, t) ==
    LET counted == IncrementStmt(us, u, us[u])
    IN  IF ReachedThreshold(counted[u].failedLoginAttempts)
        THEN LockStmt(counted, u, t)
        ELSE counted

\* RecordLogin without "locked_until = NULL"
RecordLoginKeepsLock(us, u) ==
    [us EXCEPT ![u].failedLoginAttempts = 0]

\* UPDATE auth.users SET last_login_at = $1, failed_login_attempts = 0,
\* locked_until = NULL WHERE user_id = $2
RecordLogin(us, u) ==
    [us EXCEPT ![u].failedLoginAttempts = 0, ![u].lockedUntil = NoTime]

\* the session Login builds: expiryTime := time.Now().Add(tokenExpiryMin minutes)
\* SessionRepository.Create stamps last_active_at with its own time.Now()
NewSession(u, token, t) ==
    [token |-> token, userId |-> u, expiresAt |-> t + tokenExpiryMin, isValid |-> TRUE,
     lastActiveAt |-> t]

\* a touch that also pushes the expiry forward
UpdateLastActiveAtSliding(ss, token, t) ==
    {IF s.token = token
     THEN [s EXCEPT !.lastActiveAt = t, !.expiresAt = t + tokenExpiryMin]
     ELSE s : s \in ss}

\* UPDATE auth.sessions SET last_active_at = NOW() WHERE session_id = $1
UpdateLastActiveAt(ss, token, t) ==
    {IF s.token = token THEN [s EXCEPT !.lastActiveAt = t] ELSE s : s \in ss}

\* the test without its expiry clause
SessionRejectedNoExpiry(found, t) ==
    \/ found = {}
    \/ \E s \in found : ~s.isValid

\* the test without its is_valid clause
SessionRejectedNoValidity(found, t) ==
    \/ found = {}
    \/ \E s \in found : t > s.expiresAt

\* session == nil || !session.IsValid || time.Now().After(session.ExpiresAt)
SessionRejected(found, t) ==
    \/ found = {}
    \/ \E s \in found : ~s.isValid \/ t > s.expiresAt

\* the test on the session's user without its is_active clause
UserRejectedIgnoresActive(us, u) == u \notin 1..Len(us)

\* user == nil || !user.IsActive
UserRejected(us, u) == u \notin 1..Len(us) \/ ~us[u].isActive

\* UPDATE auth.sessions SET is_valid = false, last_active_at = NOW()
\* WHERE token = $1
Invalidate(ss, token, t) ==
    {IF s.token = token THEN [s EXCEPT !.isValid = FALSE, !.lastActiveAt = t]
     ELSE s : s \in ss}

\* UPDATE auth.sessions SET is_valid = false, last_active_at = NOW()
\* WHERE user_id = $1
InvalidateAllForUser(ss, u, t) ==
    {IF s.userId = u THEN [s EXCEPT !.isValid = FALSE, !.lastActiveAt = t]
     ELSE s : s \in ss}

\* an Invalidate that reports an error when its UPDATE changes no row's is_valid
InvalidateResultStrict(ss, token) ==
    IF \E s \in ss : s.token = token /\ s.isValid THEN "ok" ELSE "NoRows"

\* _, err := r.pool.Exec(ctx, query, token); return err: the number of rows
\* the UPDATE changed is not looked at
InvalidateResult(ss, token) == "ok"

\* a delete that also takes the sessions expiring at this very instant
DeleteExpiredSessionsInclusive(ss, t) == {s \in ss : ~(s.expiresAt <= t)}

\* DELETE FROM auth.sessions WHERE expires_at < NOW()
DeleteExpiredSessions(ss, t) == {s \in ss : ~(s.expiresAt < t)}

\* users(username UNIQUE, email UNIQUE): the INSERT is refused when a row
\* already holds the username or the email
UniqueViolation(us, username, email) ==
    \E i \in 1..Len(us) : us[i].username = username \/ us[i].email = email

\* UserRepository.Create: the INSERT, whose error row.Scan returns
CreateFails(us, username, email) == UniqueViolation(us, username, email)

CreateUser(us, row) ==
    IF CreateFails(us, row.username, row.email) THEN us ELSE Append(us, row)

\* an unknown identifier told apart from a wrong password
UnknownUserErrorLeaky == "UserNotFound"

\* if user == nil { return nil, ErrInvalidCredentials }
UnknownUserError == "InvalidCredentials"

\* the identifier tried as a username first
LoginUserUsernameFirst(us, identifier) ==
    LET byUsername == GetByUsername(us, identifier)
    IN  IF byUsername = NoUser THEN GetByEmail(us, identifier) ELSE byUsername

\* user, err := GetByEmail(ctx, identifier);
\* if user == nil { user, err = GetByUsername(ctx, identifier) }
LoginUser(us, identifier) ==
    LET byEmail == GetByEmail(us, identifier)
    IN  IF byEmail = NoUser THEN GetByUsername(us, identifier) ELSE byEmail

\* ------------------------------------------------------------ return values

\* seenLock, seenValid: the locked_until / is_valid the call read
\* fault: the storage call of the operation that failed, if one did
Returned(op, s1, s2, token, result, user, exp, seenLock, seenValid) ==
    [op |-> op, s1 |-> s1, s2 |-> s2, token |-> token, result |-> result,
     user |-> user, exp |-> exp, seenLock |-> seenLock, seenValid |-> seenValid,
     seenFailed |-> 0, late |-> FALSE, fault |-> ""]

NoCall == Returned("none", "", "", NoToken, "", NoUser, NoTime, NoTime, "")

\* a request that is not being served
\* err: the storage call whose error the request's err variable holds
Idle == [s1 |-> "", s2 |-> "", token |-> NoToken, user |-> NoUser, exp |-> NoTime,
         snap |-> NewUserRow("", "", "", FALSE, FALSE), late |-> FALSE, torn |-> FALSE,
         err |-> ""]

\* ------------------------------------------------------------------- Init

Init ==
    /\ users = <<>>
    /\ sessions = {}
    /\ audit = [u \in UserIds |-> 0]
    /\ issued = 0
    /\ now = 0
    /\ booted = FALSE
    /\ ret = NoCall
    /\ pc = [p \in Threads |-> IF p = CleanupTask THEN "select"
                             ELSE IF p = MainThread THEN "serving"
                             ELSE "idle"]
    /\ loc = [p \in Procs |-> Idle]
    /\ consec = [u \in UserIds |-> 0]
    /\ fifthAt = [u \in UserIds |-> NoTime]
    /\ lockedAt = [u \in UserIds |-> NoTime]
    /\ failCount = [u \in UserIds |-> 0]
    /\ loggedOut = {}

inFlight == <<pc, loc>>
lockHistory == <<consec, fifthAt, lockedAt>>
history == <<consec, fifthAt, lockedAt, failCount, loggedOut>>

\* ------------------------------------------- handlers, run without interleaving

\* createAdminUser, run by main before the server and the cleanup task start
Bootstrap ==
    /\ ~booted
    /\ booted' = TRUE
    /\ users' = IF GetByEmail(users, adminEmail) = NoUser
                THEN CreateUser(users, NewUserRow(adminUsername, adminEmail,
                                                  adminPassword, TRUE, TRUE))
                ELSE users
    /\ ret' = Returned("createAdminUser", "", "", NoToken, "ok", NoUser, NoTime,
                       NoTime, "")
    /\ UNCHANGED <<sessions, audit, issued, now, inFlight, history>>

\* the two lookups in the other order
RegisterResultUsernameFirst(us, username, email) ==
    IF GetByUsername(us, username) # NoUser THEN "UsernameAlreadyExists"
    ELSE IF GetByEmail(us, email) # NoUser THEN "EmailAlreadyExists"
    ELSE IF CreateFails(us, username, email) THEN "ConstraintViolation"
    ELSE "ok"

\* what Register returns for the table it finds
RegisterResult(us, username, email) ==
    IF GetByEmail(us, email) # NoUser THEN "EmailAlreadyExists"
    ELSE IF GetByUsername(us, username) # NoUser THEN "UsernameAlreadyExists"
    ELSE IF CreateFails(us, username, email) THEN "ConstraintViolation"
    ELSE "ok"

\* the returned user carries the verification token generateSecureToken made
Register(username, email, password) ==
    /\ booted
    /\ LET result == RegisterResult(users, username, email)
       IN  IF result = "ok"
           THEN /\ issued < MaxTokens
                /\ issued' = issued + 1
                /\ users' = CreateUser(users, NewUserRow(username, email, password,
                                                         FALSE, TRUE))
                /\ ret' = Returned("Register", username, email, issued + 1, "ok",
                                   Len(users'), NoTime, NoTime, "")
           ELSE /\ ret' = Returned("Register", username, email, NoToken, result,
                                   NoUser, NoTime, NoTime, "")
                /\ UNCHANGED <<users, issued>>
    /\ UNCHANGED <<sessions, audit, now, booted, inFlight, history>>

Min(a, b) == IF a < b THEN a ELSE b

Login(identifier, password) ==
    /\ booted
    /\ LET u == LoginUser(users, identifier)
       IN  IF u = NoUser
           THEN /\ ret' = Returned("Login", identifier, password, NoToken,
                                   UnknownUserError, NoUser, NoTime, NoTime, "")
                /\ UNCHANGED <<users, sessions, audit, issued, history>>
           ELSE IF IsLocked(users[u], now)
           THEN /\ ret' = Returned("Login", identifier, password, NoToken,
                                   "UserLocked", u, NoTime, users[u].lockedUntil, "")
                /\ UNCHANGED <<users, sessions, audit, issued, history>>
           ELSE IF ~VerifyPassword(users[u], password)
           THEN /\ users[u].failedLoginAttempts < MaxFailed
                /\ users' = IncrementFailedLoginAttempts(users, u, now)
                /\ ret' = Returned("Login", identifier, password, NoToken,
                                   "InvalidCredentials", u, NoTime,
                                   users[u].lockedUntil, "")
                /\ consec' = [consec EXCEPT ![u] = Min(@ + 1, LockThreshold)]
                /\ fifthAt' = IF consec'[u] >= LockThreshold
                              THEN [fifthAt EXCEPT ![u] = now] ELSE fifthAt
                /\ lockedAt' = IF users'[u].lockedUntil # users[u].lockedUntil
                               THEN [lockedAt EXCEPT ![u] = now] ELSE lockedAt
                /\ failCount' = [failCount EXCEPT ![u] = @ + 1]
                /\ UNCHANGED <<sessions, audit, issued, loggedOut>>
           ELSE /\ issued < MaxTokens
                /\ issued' = issued + 1
                /\ sessions' = sessions \cup {NewSession(u, issued + 1, now)}
                /\ users' = RecordLogin(users, u)
                /\ audit' = [audit EXCEPT ![u] = @ + 1]
                /\ ret' = Returned("Login", identifier, password, issued + 1, "ok",
                                   u, now + tokenExpiryMin, users[u].lockedUntil, "")
                /\ consec' = [consec EXCEPT ![u] = 0]
                /\ fifthAt' = [fifthAt EXCEPT ![u] = NoTime]
                /\ lockedAt' = [lockedAt EXCEPT ![u] = NoTime]
                /\ failCount' = [failCount EXCEPT ![u] = 0]
                /\ UNCHANGED loggedOut
    /\ UNCHANGED <<now, booted, inFlight>>

\* is_valid of the row the token names, as a caller would describe it
Validity(ss, token) ==
    IF GetByToken(ss, token) = {} THEN "absent"
    ELSE IF \E s \in GetByToken(ss, token) : s.isValid THEN "valid"
    ELSE "invalid"

\* Logout is the one statement of Invalidate
Logout(token) ==
    /\ booted
    /\ sessions' = Invalidate(sessions, token, now)
    /\ ret' = Returned("Logout", "", "", token, InvalidateResult(sessions, token),
                       NoUser, NoTime, NoTime, Validity(sessions, token))
    /\ loggedOut' = IF InvalidateResult(sessions, token) = "ok"
                    THEN loggedOut \cup {token} ELSE loggedOut
    /\ UNCHANGED <<users, audit, issued, now, booted, inFlight, lockHistory, failCount>>

\* SessionRepository.InvalidateAllForUser called for user u
InvalidateAll(u) ==
    /\ booted
    /\ sessions' = InvalidateAllForUser(sessions, u, now)
    /\ ret' = Returned("InvalidateAllForUser", "", "", NoToken, "ok", u, NoTime,
                       NoTime, "")
    /\ UNCHANGED <<users, audit, issued, now, booted, inFlight, history>>

\* what ValidateSession returns for the tables it finds
ValidateResult(ss, us, token, t) ==
    LET found == GetByToken(ss, token)
    IN  IF SessionRejected(found, t) THEN "InvalidToken"
        ELSE IF \E s \in found : UserRejected(us, s.userId) THEN "UserNotFound"
        ELSE "ok"

ValidateSession(token) ==
    /\ booted
    /\ LET result == ValidateResult(sessions, users, token, now)
           found == GetByToken(sessions, token)
       IN  /\ ret' = IF result = "ok"
                  THEN LET s == CHOOSE s \in found : TRUE
                       IN  Returned("ValidateSession", "", "", token, "ok",
                                    s.userId, s.expiresAt, NoTime,
                                    Validity(sessions, token))
                  ELSE Returned("ValidateSession", "", "", token, result,
                                NoUser, NoTime, NoTime, Validity(sessions, token))
           /\ sessions' = IF result = "ok" THEN UpdateLastActiveAt(sessions, token, now)
                          ELSE sessions
    /\ UNCHANGED <<users, audit, issued, now, booted, inFlight, history>>

\* one tick of scheduleSessionCleanup; DeleteExpiredSessions is one statement
Cleanup ==
    /\ booted
    /\ pc[MainThread] # "exited"
    /\ pc[CleanupTask] = "select"
    /\ sessions' = DeleteExpiredSessions(sessions, now)
    /\ ret' = Returned("DeleteExpiredSessions", "", "", NoToken, "ok", NoUser,
                       Cardinality(sessions) - Cardinality(sessions'), NoTime, "")
    /\ UNCHANGED <<users, audit, issued, now, booted, inFlight, history>>

\* UserRepository.Update called with the row GetByID returned and IsActive
\* set: the one way a stored is_active changes
SetActive(u, active) ==
    /\ booted
    /\ u \in 1..Len(users)
    /\ users' = [users EXCEPT ![u].isActive = active]
    /\ ret' = Returned("Update", "", "", NoToken, "ok", u, NoTime, NoTime, "")
    /\ UNCHANGED <<sessions, audit, issued, now, booted, inFlight, history>>

\* time passes
Tick(d, limit) ==
    /\ now + d <= limit
    /\ now' = now + d
    /\ ret' = NoCall
    /\ UNCHANGED <<users, sessions, audit, issued, booted, inFlight, history>>

\* ------------------------------------------------------- db.InTransaction

\* the calls InTransaction makes on the pool and the transaction; one of
\* them, or none, is the call that fails when made
TxCalls == {"", "Begin", "Rollback", "Commit"}

\* a transaction that is committed whatever fn returned
TxCommitsAlways(fault, fnErr) == fault # "Begin"

\* whether tx.Commit is called: Begin succeeded and fn returned nil
TxCommits(fault, fnErr) == fault # "Begin" /\ ~fnErr

\* the error InTransaction returns
TxResult(fault, fnErr) ==
    IF fault = "Begin" THEN "error beginning transaction"
    ELSE IF fnErr
    THEN IF fault = "Rollback" THEN "error rolling back transaction" ELSE "fn error"
    ELSE IF fault = "Commit" THEN "error committing transaction"
    ELSE "ok"

\* InTransaction called with a function that invalidates the session of
\* token and then returns an error or nil. The statement takes effect when
\* the transaction commits; a Commit that returns an error may or may not
\* have committed.
\* ret.s1: the error fn returned; ret.fault: the call that failed
InTransaction(token, fault, fnErr) ==
    /\ booted
    /\ \E committed \in IF ~TxCommits(fault, fnErr) THEN {FALSE}
                        ELSE IF fault = "Commit" THEN BOOLEAN
                        ELSE {TRUE} :
           sessions' = IF committed THEN Invalidate(sessions, token, now) ELSE sessions
    /\ ret' = [Returned("InTransaction",
                        IF fault # "Begin" /\ fnErr THEN "fn error" ELSE "", "",
                        token, TxResult(fault, fnErr), NoUser, NoTime, NoTime,
                        Validity(sessions, token))
                   EXCEPT !.fault = fault]
    /\ UNCHANGED <<users, audit, issued, now, booted, inFlight, history>>

\* ----------------------------------------------------- the host process

\* ctx := context.Background(), the context main hands to
\* scheduleSessionCleanup
cleanupCtx == "Background"

\* ctx, cancel := context.WithTimeout(context.Background(), 5*time.Second),
\* the context main hands to srv.Shutdown
shutdownCtx == "WithTimeout"

\* whether ctx.Done() is closed: never for context.Background(); for the
\* context of srv.Shutdown once its deadline passes or main returns
Done(ctx) == ctx = shutdownCtx /\ pc[MainThread] = "exited"

\* <-quit: the process receives SIGINT or SIGTERM
Signal ==
    /\ booted
    /\ pc[MainThread] = "serving"
    /\ pc' = [pc EXCEPT ![MainThread] = "shuttingDown"]
    /\ ret' = NoCall
    /\ UNCHANGED <<users, sessions, audit, issued, now, booted, loc, history>>

\* srv.Shutdown(ctx) returns and main returns: the process ends, and its
\* goroutines with it
Exit ==
    /\ pc[MainThread] = "shuttingDown"
    /\ pc' = [pc EXCEPT ![MainThread] = "exited"]
    /\ ret' = NoCall
    /\ UNCHANGED <<users, sessions, audit, issued, now, booted, loc, history>>

\* case <-ctx.Done(): return
CleanupReturn ==
    /\ booted
    /\ pc[MainThread] # "exited"
    /\ pc[CleanupTask] = "select"
    /\ Done(cleanupCtx)
    /\ pc' = [pc EXCEPT ![CleanupTask] = "returned"]
    /\ ret' = NoCall
    /\ UNCHANGED <<users, sessions, audit, issued, now, booted, loc, history>>

\* a loop that gives up after a tick that failed
AfterTickStopsOnError(err) == IF err THEN "returned" ELSE "select"

\* if err != nil { log.Printf(...) } else if count > 0 { log.Printf(...) }:
\* where the loop of scheduleSessionCleanup is after a tick
AfterTick(err) == "select"

\* one tick of scheduleSessionCleanup whose DeleteExpiredSessions returns
\* an error
CleanupFails ==
    /\ booted
    /\ pc[MainThread] # "exited"
    /\ pc[CleanupTask] = "select"
    /\ pc' = [pc EXCEPT ![CleanupTask] = AfterTick(TRUE)]
    /\ ret' = [Returned("DeleteExpiredSessions", "", "", NoToken, "Infrastructure",
                        NoUser, NoTime, NoTime, "")
                   EXCEPT !.fault = "DeleteExpiredSessions"]
    /\ UNCHANGED <<users, sessions, audit, issued, now, booted, loc, history>>

\* tokens a caller can present: those issued so far, and one never issued
Presentable == 0..issued

\* column = $1 in a WHERE clause: never true of a NULL column
MatchesToken(column, token) == column # NoToken /\ column = token

\* SELECT user_id FROM auth.users WHERE email_verification_token = $1
\* AND is_email_verified = false
VerifyEmailUser(us, token) ==
    FirstRow({i \in 1..Len(us) : /\ MatchesToken(us[i].emailVerificationToken, token)
                                 /\ ~us[i].isEmailVerified})

\* UPDATE auth.users SET is_email_verified = true,
\* email_verification_token = NULL WHERE user_id = $1
MarkVerified(us, u) ==
    [us EXCEPT ![u].isEmailVerified = TRUE, ![u].emailVerificationToken = NoToken]

VerifyEmail(token) ==
    /\ booted
    /\ LET u == VerifyEmailUser(users, token)
       IN  IF u = NoUser
           THEN /\ ret' = Returned("VerifyEmail", "", "", token, "InvalidToken",
                                   NoUser, NoTime, NoTime, "")
                /\ UNCHANGED users
           ELSE /\ users' = MarkVerified(users, u)
                /\ ret' = Returned("VerifyEmail", "", "", token, "ok", u, NoTime,
                                   NoTime, "")
    /\ UNCHANGED <<sessions, audit, issued, now, booted, inFlight, history>>


\* ------------------------------------- handlers, one storage statement a step

\* request p returns r
Return(p, r) ==
    /\ pc' = [pc EXCEPT ![p] = "idle"]
    /\ loc' = [loc EXCEPT ![p] = Idle]
    /\ ret' = r

\* another request stands between the two statements of
\* IncrementFailedLoginAttempts on row u
InGap(p, u) == \E q \in Procs \ {p} : pc[q] = "LoginLock" /\ loc[q].user = u

\* Login has read the row of user u
LoginFound(p, identifier, password, u) ==
    /\ pc' = [pc EXCEPT ![p] = "LoginCheck"]
    /\ loc' = [loc EXCEPT ![p] = [Idle EXCEPT !.s1 = identifier, !.s2 = password,
                                              !.user = u, !.snap = users[u],
                                              !.torn = InGap(p, u)]]
    /\ ret' = NoCall

LoginReturn(p, result) ==
    Return(p, [Returned("Login", loc[p].s1, loc[p].s2, loc[p].token, result,
                        loc[p].user, loc[p].exp, loc[p].snap.lockedUntil, "")
               EXCEPT !.seenFailed = loc[p].snap.failedLoginAttempts])

\* user, err = s.userRepo.GetByEmail(ctx, usernameOrEmail)
LoginBegin(p, identifier, password) ==
    /\ booted
    /\ pc[p] = "idle"
    /\ LET u == GetByEmail(users, identifier)
       IN  IF u # NoUser
           THEN LoginFound(p, identifier, password, u)
           ELSE /\ pc' = [pc EXCEPT ![p] = "LoginByUsername"]
                /\ loc' = [loc EXCEPT ![p] = [Idle EXCEPT !.s1 = identifier,
                                                          !.s2 = password]]
                /\ ret' = NoCall
    /\ UNCHANGED <<users, sessions, audit, issued, now, booted, history>>

\* user, err = s.userRepo.GetByUsername(ctx, usernameOrEmail)
LoginByUsername(p) ==
    /\ pc[p] = "LoginByUsername"
    /\ LET u == GetByUsername(users, loc[p].s1)
       IN  IF u # NoUser
           THEN LoginFound(p, loc[p].s1, loc[p].s2, u)
           ELSE LoginReturn(p, UnknownUserError)
    /\ UNCHANGED <<users, sessions, audit, issued, now, booted, history>>

\* the lock check and the password check on the row read, then the first
\* statement they lead to
LoginCheck(p) ==
    /\ pc[p] = "LoginCheck"
    /\ LET u == loc[p].user
           read == loc[p].snap
       IN  IF IsLocked(read, now)
           THEN /\ LoginReturn(p, "UserLocked")
                /\ UNCHANGED <<users, sessions, audit, issued, history>>
           ELSE IF ~VerifyPassword(read, loc[p].s2)
           THEN /\ users[u].failedLoginAttempts < MaxFailed
                /\ users' = IncrementStmt(users, u, read)
                /\ failCount' = [failCount EXCEPT ![u] = @ + 1]
                /\ IF ReachedThreshold(users'[u].failedLoginAttempts)
                   THEN /\ pc' = [pc EXCEPT ![p] = "LoginLock"]
                        /\ ret' = NoCall
                        /\ UNCHANGED loc
                   ELSE LoginReturn(p, "InvalidCredentials")
                /\ UNCHANGED <<sessions, audit, issued, lockHistory, loggedOut>>
           ELSE /\ issued < MaxTokens
                /\ issued' = issued + 1
                /\ sessions' = sessions \cup {NewSession(u, issued + 1, now)}
                /\ pc' = [pc EXCEPT ![p] = "LoginRecord"]
                /\ loc' = [loc EXCEPT ![p].token = issued + 1,
                                      ![p].exp = now + tokenExpiryMin]
                /\ ret' = NoCall
                /\ UNCHANGED <<users, audit, history>>
    /\ UNCHANGED <<now, booted>>

\* the second statement of IncrementFailedLoginAttempts
LoginLock(p) ==
    /\ pc[p] = "LoginLock"
    /\ users' = LockStmt(users, loc[p].user, now)
    /\ LoginReturn(p, "InvalidCredentials")
    /\ UNCHANGED <<sessions, audit, issued, now, booted, history>>

\* s.userRepo.RecordLogin(ctx, user.UserID)
LoginRecord(p) ==
    /\ pc[p] = "LoginRecord"
    /\ users' = RecordLogin(users, loc[p].user)
    /\ failCount' = [failCount EXCEPT ![loc[p].user] = 0]
    /\ pc' = [pc EXCEPT ![p] = "LoginAudit"]
    /\ ret' = NoCall
    /\ UNCHANGED <<sessions, audit, issued, now, booted, loc, lockHistory, loggedOut>>

\* s.createAuditLog(ctx, auditLog); return session, nil
LoginAudit(p) ==
    /\ pc[p] = "LoginAudit"
    /\ audit' = [audit EXCEPT ![loc[p].user] = @ + 1]
    /\ LoginReturn(p, "ok")
    /\ UNCHANGED <<users, sessions, issued, now, booted, history>>

ValidateReturn(p, token, result, user, exp, late) ==
    Return(p, [Returned("ValidateSession", "", "", token, result, user, exp,
                        NoTime, "")
               EXCEPT !.late = late])

\* session, err := s.sessionRepo.GetByToken(ctx, token) and the test on it
ValidateBegin(p, token) ==
    /\ booted
    /\ pc[p] = "idle"
    /\ LET found == GetByToken(sessions, token)
           late == token \in loggedOut
       IN  IF SessionRejected(found, now)
           THEN ValidateReturn(p, token, "InvalidToken", NoUser, NoTime, late)
           ELSE LET s == CHOOSE s \in found : TRUE
                IN  /\ pc' = [pc EXCEPT ![p] = "ValidateUser"]
                    /\ loc' = [loc EXCEPT ![p] = [Idle EXCEPT !.token = token,
                                                              !.user = s.userId,
                                                              !.exp = s.expiresAt,
                                                              !.late = late]]
                    /\ ret' = NoCall
    /\ UNCHANGED <<users, sessions, audit, issued, now, booted, history>>

\* user, err := s.userRepo.GetByID(ctx, session.UserID), the test on it and
\* the touch of last_active_at
ValidateUser(p) ==
    /\ pc[p] = "ValidateUser"
    /\ IF UserRejected(users, loc[p].user)
       THEN /\ ValidateReturn(p, loc[p].token, "UserNotFound", NoUser, NoTime, loc[p].late)
            /\ UNCHANGED sessions
       ELSE /\ sessions' = UpdateLastActiveAt(sessions, loc[p].token, now)
            /\ ValidateReturn(p, loc[p].token, "ok", loc[p].user, loc[p].exp, loc[p].late)
    /\ UNCHANGED <<users, audit, issued, now, booted, history>>

\* Create's error dropped
RegisterCreateResultIgnored(fails) == "ok"

\* what Register returns once Create has returned
RegisterCreateResult(fails) == IF fails THEN "ConstraintViolation" ELSE "ok"

RegisterReturn(p, result, user) ==
    Return(p, Returned("Register", loc[p].s1, loc[p].s2,
                       IF result = "ok" THEN loc[p].token ELSE NoToken, result, user,
                       NoTime, NoTime, ""))

\* existingUser, err := s.userRepo.GetByEmail(ctx, email)
RegisterBegin(p, username, email, password) ==
    /\ booted
    /\ pc[p] = "idle"
    /\ IF GetByEmail(users, email) # NoUser
       THEN Return(p, Returned("Register", username, email, NoToken,
                               "EmailAlreadyExists", NoUser, NoTime, NoTime, ""))
       ELSE /\ pc' = [pc EXCEPT ![p] = "RegisterByUsername"]
            /\ loc' = [loc EXCEPT ![p] = [Idle EXCEPT !.s1 = username, !.s2 = email,
                                                      !.snap = NewUserRow(username, email,
                                                                 password, FALSE, TRUE)]]
            /\ ret' = NoCall
    /\ UNCHANGED <<users, sessions, audit, issued, now, booted, history>>

\* existingUser, err = s.userRepo.GetByUsername(ctx, username), then
\* verificationToken, err := generateSecureToken(32)
RegisterByUsername(p) ==
    /\ pc[p] = "RegisterByUsername"
    /\ IF GetByUsername(users, loc[p].s1) # NoUser
       THEN /\ RegisterReturn(p, "UsernameAlreadyExists", NoUser)
            /\ UNCHANGED issued
       ELSE /\ issued < MaxTokens
            /\ issued' = issued + 1
            /\ pc' = [pc EXCEPT ![p] = "RegisterCreate"]
            /\ loc' = [loc EXCEPT ![p].token = issued + 1]
            /\ ret' = NoCall
    /\ UNCHANGED <<users, sessions, audit, now, booted, history>>

\* s.userRepo.Create(ctx, user, password)
RegisterCreate(p) ==
    /\ pc[p] = "RegisterCreate"
    /\ users' = CreateUser(users, loc[p].snap)
    /\ LET result == RegisterCreateResult(CreateFails(users, loc[p].s1, loc[p].s2))
       IN  RegisterReturn(p, result, IF result = "ok" THEN Len(users') ELSE NoUser)
    /\ UNCHANGED <<sessions, audit, issued, now, booted, history>>

\* ---------------------------------------------------------- specifications

\* registration and lockout: the handlers that write auth.users
Next ==
    \/ Bootstrap
    \/ \E username \in Usernames, email \in Emails :
           Register(username, email, "Secret123!")
    \/ \E identifier \in Identifiers, password \in Passwords :
           Login(identifier, password)
    \/ \E d \in ClockSteps : Tick(d, MaxLockTime)

Spec == Init /\ [][Next]_vars

\* the session lifecycle: the handlers that read and write auth.sessions
NextSessions ==
    \/ Bootstrap
    \/ Login(adminEmail, adminPassword)
    \/ \E token \in Presentable : Logout(token)
    \/ \E token \in Presentable : ValidateSession(token)
    \/ Cleanup
    \/ \E active \in BOOLEAN : SetActive(1, active)
    \/ \E d \in ClockSteps : Tick(d, MaxTime)

SpecSessions == Init /\ [][NextSessions]_vars

\* logins to the administrator's account, served at the same time
NextLogins ==
    \/ Bootstrap
    \/ \E p \in Procs, identifier \in {adminEmail, adminUsername}, password \in Passwords :
           LoginBegin(p, identifier, password)
    \/ \E p \in Procs : LoginByUsername(p)
    \/ \E p \in Procs : LoginCheck(p)
    \/ \E p \in Procs : LoginLock(p)
    \/ \E p \in Procs : LoginRecord(p)
    \/ \E p \in Procs : LoginAudit(p)

SpecLogins == Init /\ [][NextLogins]_vars

\* validations and logouts of the administrator's sessions, served at the
\* same time
NextLogouts ==
    \/ Bootstrap
    \/ Login(adminEmail, adminPassword)
    \/ \E p \in Procs, token \in Presentable : ValidateBegin(p, token)
    \/ \E p \in Procs : ValidateUser(p)
    \/ \E token \in Presentable : Logout(token)
    \/ Cleanup
    \/ Tick(LockMinutes, MaxTime)

SpecLogouts == Init /\ [][NextLogouts]_vars

\* registrations served at the same time
NextRegister ==
    \/ Bootstrap
    \/ \E p \in Procs, username \in Usernames, email \in Emails :
           RegisterBegin(p, username, email, "Secret123!")
    \/ \E p \in Procs : RegisterByUsername(p)
    \/ \E p \in Procs : RegisterCreate(p)

SpecRegister == Init /\ [][NextRegister]_vars

\* ------------------------------------------------ password reset and change

\* the one plaintext CompareHashAndPassword accepts for a hash
Plaintext(hash) == hash[2]

\* a reset token good for one hour
ResetExpiryHour(t) == t + tokenExpiryMin

\* expiryTime := time.Now().Add(24 * time.Hour)
ResetExpiry(t) == t + ResetExpiryMinutes

\* UserRepository.Update: every column but user_id, password_hash and
\* created_at is overwritten with the caller's copy of the row
Update(us, u, row) ==
    [us EXCEPT ![u] = [row EXCEPT !.passwordHash = us[u].passwordHash]]

\* UpdatePassword leaving password_hash as it was
UpdatePasswordKeepsHash(us, u, newPassword) ==
    [us EXCEPT ![u].passwordResetToken = NoToken,
               ![u].passwordResetExpiresAt = NoTime]

\* an update of the hash that leaves the reset token and its expiry
UpdatePasswordKeepsToken(us, u, newPassword) ==
    [us EXCEPT ![u].passwordHash = Hash(newPassword)]

\* UPDATE auth.users SET password_hash = $1, password_reset_token = NULL,
\* password_reset_expires_at = NULL WHERE user_id = $2
UpdatePassword(us, u, newPassword) ==
    [us EXCEPT ![u].passwordHash = Hash(newPassword),
               ![u].passwordResetToken = NoToken,
               ![u].passwordResetExpiresAt = NoTime]

\* the lookup without "AND password_reset_expires_at > NOW()"
ResetPasswordUserAnyAge(us, token, t) ==
    FirstRow({i \in 1..Len(us) : MatchesToken(us[i].passwordResetToken, token)})

\* a lookup that takes any token for a user with a reset pending
ResetPasswordUserAnyToken(us, token, t) ==
    FirstRow({i \in 1..Len(us) : /\ us[i].passwordResetToken # NoToken
                                 /\ token # NoToken
                                 /\ us[i].passwordResetExpiresAt > t})

\* SELECT user_id FROM auth.users WHERE password_reset_token = $1
\* AND password_reset_expires_at > NOW()
ResetPasswordUser(us, token, t) ==
    FirstRow({i \in 1..Len(us) : /\ MatchesToken(us[i].passwordResetToken, token)
                                 /\ us[i].passwordResetExpiresAt > t})

ForgotPassword(email) ==
    /\ booted
    /\ LET u == GetByEmail(users, email)
       IN  IF u = NoUser
           THEN /\ ret' = Returned("ForgotPassword", "", email, NoToken, "ok", NoUser,
                                   NoTime, NoTime, "")
                /\ UNCHANGED <<users, issued>>
           ELSE /\ issued < MaxTokens
                /\ issued' = issued + 1
                /\ users' = Update(users, u,
                                   [users[u] EXCEPT !.passwordResetToken = issued + 1,
                                                    !.passwordResetExpiresAt = ResetExpiry(now)])
                /\ ret' = Returned("ForgotPassword", "", email, issued + 1, "ok", u,
                                   ResetExpiry(now), NoTime, "")
    /\ UNCHANGED <<sessions, audit, now, booted, inFlight, history>>

\* ret.s1: the password the account had when the call found it
ResetPassword(token, newPassword) ==
    /\ booted
    /\ LET u == ResetPasswordUser(users, token, now)
       IN  IF u = NoUser
           THEN /\ ret' = Returned("ResetPassword", "", newPassword, token,
                                   "InvalidToken", NoUser, NoTime, NoTime, "")
                /\ UNCHANGED users
           ELSE /\ users' = UpdatePassword(users, u, newPassword)
                /\ ret' = Returned("ResetPassword", Plaintext(users[u].passwordHash),
                                   newPassword, token, "ok", u, NoTime, NoTime, "")
    /\ UNCHANGED <<sessions, audit, issued, now, booted, inFlight, history>>

\* ChangePassword with the check of the current password left out
ChangePasswordResultUnchecked(us, u, currentPassword) ==
    IF u \notin 1..Len(us) THEN "UserNotFound" ELSE "ok"

\* what ChangePassword returns for the table it finds
ChangePasswordResult(us, u, currentPassword) ==
    IF u \notin 1..Len(us) THEN "UserNotFound"
    ELSE IF ~VerifyPassword(us[u], currentPassword) THEN "InvalidCredentials"
    ELSE "ok"

\* ret.token, ret.exp: the reset token and expiry on the row GetByID read
ChangePassword(u, currentPassword, newPassword) ==
    /\ booted
    /\ LET result == ChangePasswordResult(users, u, currentPassword)
           found == u \in 1..Len(users)
       IN  /\ users' = IF result = "ok" THEN UpdatePassword(users, u, newPassword)
                       ELSE users
           /\ ret' = Returned("ChangePassword", currentPassword, newPassword,
                              IF found THEN users[u].passwordResetToken ELSE NoToken,
                              result, u,
                              IF found THEN users[u].passwordResetExpiresAt ELSE NoTime,
                              NoTime, "")
    /\ UNCHANGED <<sessions, audit, issued, now, booted, inFlight, history>>

\* ------------------------------------------------- storage calls that fail

\* GetByEmail returns (nil, err): user == nil, so the username lookup is
\* made next and assigns err anew
LoginBeginFails(p, identifier, password) ==
    /\ booted
    /\ pc[p] = "idle"
    /\ pc' = [pc EXCEPT ![p] = "LoginByUsername"]
    /\ loc' = [loc EXCEPT ![p] = [Idle EXCEPT !.s1 = identifier, !.s2 = password,
                                              !.err = "GetByEmail"]]
    /\ ret' = NoCall
    /\ UNCHANGED <<users, sessions, audit, issued, now, booted, history>>

\* GetByUsername returns (nil, err): if err != nil { return nil, err }
LoginByUsernameFails(p) ==
    /\ pc[p] = "LoginByUsername"
    /\ LoginReturn(p, "Infrastructure")
    /\ UNCHANGED <<users, sessions, audit, issued, now, booted, history>>

\* s.userRepo.RecordLogin returns an error after sessionRepo.Create has
\* stored the session: return nil, err
LoginRecordFails(p) ==
    /\ pc[p] = "LoginRecord"
    /\ Return(p, [Returned("Login", loc[p].s1, loc[p].s2, NoToken, "Infrastructure",
                           loc[p].user, NoTime, loc[p].snap.lockedUntil, "")
                  EXCEPT !.fault = "RecordLogin",
                         !.seenFailed = loc[p].snap.failedLoginAttempts])
    /\ UNCHANGED <<users, sessions, audit, issued, now, booted, history>>

\* an audit-log error that fails the Login
AfterAuditErrorFails(result) == "Infrastructure"

\* if _, err := s.createAuditLog(ctx, auditLog); err != nil { fmt.Printf(...) }
AfterAuditError(result) == result

\* createAuditLog returns an error: no row is written
LoginAuditFails(p) ==
    /\ pc[p] = "LoginAudit"
    /\ LoginReturn(p, AfterAuditError("ok"))
    /\ UNCHANGED <<users, sessions, audit, issued, now, booted, history>>

\* if err := s.sessionRepo.UpdateLastActiveAt(...); err != nil { fmt.Printf(...) }
AfterTouchError(result) == result

\* UpdateLastActiveAt returns an error: last_active_at stays as it was
ValidateUserTouchFails(p) ==
    /\ pc[p] = "ValidateUser"
    /\ ~UserRejected(users, loc[p].user)
    /\ ValidateReturn(p, loc[p].token, AfterTouchError("ok"), loc[p].user, loc[p].exp,
                      loc[p].late)
    /\ UNCHANGED <<users, sessions, audit, issued, now, booted, history>>

\* err := s.pool.QueryRow(ctx, query, token).Scan(&userID);
\* if err != nil { return ErrInvalidToken }: what the caller gets for an
\* error of the lookup, pgx.ErrNoRows or any other
TokenLookupError(err) == "InvalidToken"

\* the token lookup of VerifyEmail fails in storage
VerifyEmailLookupFails(token) ==
    /\ booted
    /\ ret' = [Returned("VerifyEmail", "", "", token, TokenLookupError("storage"),
                        NoUser, NoTime, NoTime, "") EXCEPT !.fault = "Scan"]
    /\ UNCHANGED <<users, sessions, audit, issued, now, booted, inFlight, history>>

\* the token lookup of ResetPassword fails in storage
ResetPasswordLookupFails(token, newPassword) ==
    /\ booted
    /\ ret' = [Returned("ResetPassword", "", newPassword, token,
                        TokenLookupError("storage"), NoUser, NoTime, NoTime, "")
                   EXCEPT !.fault = "Scan"]
    /\ UNCHANGED <<users, sessions, audit, issued, now, booted, inFlight, history>>

\* user, err := s.userRepo.GetByEmail(ctx, email)
ForgotBegin(p, email) ==
    /\ booted
    /\ pc[p] = "idle"
    /\ LET u == GetByEmail(users, email)
       IN  IF u = NoUser
           THEN Return(p, Returned("ForgotPassword", "", email, NoToken, "ok", NoUser,
                                   NoTime, NoTime, ""))
           ELSE /\ pc' = [pc EXCEPT ![p] = "ForgotUpdate"]
                /\ loc' = [loc EXCEPT ![p] = [Idle EXCEPT !.s2 = email, !.user = u,
                                                          !.snap = users[u]]]
                /\ ret' = NoCall
    /\ UNCHANGED <<users, sessions, audit, issued, now, booted, history>>

\* the token is generated and set on the row read earlier, which
\* s.userRepo.Update(ctx, user) then writes back
ForgotUpdate(p) ==
    /\ pc[p] = "ForgotUpdate"
    /\ issued < MaxTokens
    /\ issued' = issued + 1
    /\ users' = Update(users, loc[p].user,
                       [loc[p].snap EXCEPT !.passwordResetToken = issued + 1,
                                           !.passwordResetExpiresAt = ResetExpiry(now)])
    /\ Return(p, Returned("ForgotPassword", "", loc[p].s2, issued + 1, "ok",
                          loc[p].user, ResetExpiry(now), NoTime, ""))
    /\ UNCHANGED <<sessions, audit, now, booted, history>>

\* err := s.pool.QueryRow(ctx, query, token).Scan(&userID) of ResetPassword
ResetBegin(p, token, newPassword) ==
    /\ booted
    /\ pc[p] = "idle"
    /\ LET u == ResetPasswordUser(users, token, now)
       IN  IF u = NoUser
           THEN Return(p, Returned("ResetPassword", "", newPassword, token,
                                   "InvalidToken", NoUser, NoTime, NoTime, ""))
           ELSE /\ pc' = [pc EXCEPT ![p] = "ResetUpdate"]
                /\ loc' = [loc EXCEPT ![p] = [Idle EXCEPT !.s2 = newPassword,
                                                          !.token = token,
                                                          !.user = u]]
                /\ ret' = NoCall
    /\ UNCHANGED <<users, sessions, audit, issued, now, booted, history>>

\* return s.userRepo.UpdatePassword(ctx, userID, newPassword)
ResetUpdate(p) ==
    /\ pc[p] = "ResetUpdate"
    /\ users' = UpdatePassword(users, loc[p].user, loc[p].s2)
    /\ Return(p, Returned("ResetPassword",
                          Plaintext(users[loc[p].user].passwordHash), loc[p].s2,
                          loc[p].token, "ok", loc[p].user, NoTime, NoTime, ""))
    /\ UNCHANGED <<sessions, audit, issued, now, booted, history>>

\* registration followed by email verification
NextVerify ==
    \/ Bootstrap
    \/ \E username \in Usernames, email \in Emails :
           Register(username, email, "Secret123!")
    \/ \E token \in Presentable : VerifyEmail(token)
    \/ \E identifier \in Identifiers, password \in Passwords :
           Login(identifier, password)

SpecVerify == Init /\ [][NextVerify]_vars

\* password reset and password change, with the administrator's logins
\* around them
NextRecovery ==
    \/ Bootstrap
    \/ Register("alice", "alice", "Secret123!")
    \/ \E password \in Passwords : Login(adminEmail, password)
    \/ \E email \in Emails : ForgotPassword(email)
    \/ \E token \in Presentable, password \in Passwords : ResetPassword(token, password)
    \/ \E u \in UserIds, current \in Passwords, new \in Passwords :
           ChangePassword(u, current, new)
    \/ \E d \in RecoverySteps : Tick(d, MaxResetTime)

SpecRecovery == Init /\ [][NextRecovery]_vars

\* the administrator's password reset by token, the one way it changes here
NextReset ==
    \/ Bootstrap
    \/ \E password \in Passwords : Login(adminEmail, password)
    \/ ForgotPassword(adminEmail)
    \/ \E token \in Presentable, password \in Passwords : ResetPassword(token, password)
    \/ \E d \in RecoverySteps : Tick(d, MaxResetTime)

SpecReset == Init /\ [][NextReset]_vars

\* password-reset requests for the administrator, served while logins to
\* the account come in
NextForgot ==
    \/ Bootstrap
    \/ \E p \in Procs : ForgotBegin(p, adminEmail)
    \/ \E p \in Procs : ForgotUpdate(p)
    \/ \E password \in Passwords : Login(adminEmail, password)

SpecForgot == Init /\ [][NextForgot]_vars

\* one request at a time, served statement by statement, with storage
\* calls that may fail
NextFaults ==
    \/ Bootstrap
    \/ \E identifier \in {adminEmail, adminUsername}, password \in Passwords :
           LoginBegin(1, identifier, password)
    \/ \E identifier \in {adminEmail, adminUsername} :
           LoginBeginFails(1, identifier, adminPassword)
    \/ LoginByUsername(1)
    \/ LoginByUsernameFails(1)
    \/ LoginCheck(1)
    \/ LoginLock(1)
    \/ LoginRecord(1)
    \/ LoginRecordFails(1)
    \/ LoginAudit(1)
    \/ LoginAuditFails(1)
    \/ \E token \in Presentable : ValidateBegin(1, token)
    \/ ValidateUser(1)
    \/ ValidateUserTouchFails(1)
    \/ Tick(LockMinutes, MaxTime)

SpecFaults == Init /\ [][NextFaults]_vars

\* email verification and password reset by token, with token lookups that
\* may fail in storage
NextTokenFaults ==
    \/ Bootstrap
    \/ Register("alice", "alice", "Secret123!")
    \/ \E email \in Emails : ForgotPassword(email)
    \/ \E token \in Presentable : VerifyEmail(token)
    \/ \E token \in Presentable : VerifyEmailLookupFails(token)
    \/ \E token \in Presentable, password \in Passwords : ResetPassword(token, password)
    \/ \E token \in Presentable : ResetPasswordLookupFails(token, "Secret123!")
    \/ \E d \in RecoverySteps : Tick(d, MaxResetTime)

SpecTokenFaults == Init /\ [][NextTokenFaults]_vars

\* the process from startup to exit: logins served, the cleanup loop, the
\* shutdown signal
NextHost ==
    \/ Bootstrap
    \/ pc[MainThread] = "serving" /\ Login(adminEmail, adminPassword)
    \/ \E token \in Presentable :
           pc[MainThread] = "serving" /\ ValidateSession(token)
    \/ Cleanup
    \/ CleanupFails
    \/ Signal
    \/ Exit
    \/ \E d \in ClockSteps : Tick(d, MaxTime)

SpecHost == Init /\ [][NextHost]_vars

\* every operation that writes auth.sessions
NextTouch ==
    \/ Bootstrap
    \/ Login(adminEmail, adminPassword)
    \/ \E token \in Presentable : ValidateSession(token)
    \/ \E token \in Presentable : Logout(token)
    \/ \E u \in UserIds : InvalidateAll(u)
    \/ Cleanup
    \/ \E d \in ClockSteps : Tick(d, MaxTime)

SpecTouch == Init /\ [][NextTouch]_vars

\* sessions written inside a transaction
NextTx ==
    \/ Bootstrap
    \/ Login(adminEmail, adminPassword)
    \/ \E token \in Presentable, fault \in TxCalls, fnErr \in BOOLEAN :
           InTransaction(token, fault, fnErr)
    \/ \E token \in Presentable : ValidateSession(token)
    \/ Tick(LockMinutes, MaxTime)

SpecTx == Init /\ [][NextTx]_vars

\* password resets for the administrator, served at the same time
NextResets ==
    \/ Bootstrap
    \/ ForgotPassword(adminEmail)
    \/ \E p \in Procs, token \in Presentable, password \in Passwords :
           ResetBegin(p, token, password)
    \/ \E p \in Procs : ResetUpdate(p)
    \/ \E d \in RecoverySteps : Tick(d, MaxResetTime)

SpecResets == Init /\ [][NextResets]_vars

\* password-reset requests for the administrator, one after another, and
\* the resets made with their tokens
NextLatestToken ==
    \/ Bootstrap
    \/ ForgotPassword(adminEmail)
    \/ \E token \in Presentable, password \in Passwords : ResetPassword(token, password)
    \/ \E d \in RecoverySteps : Tick(d, MaxResetTime)

SpecLatestToken == Init /\ [][NextLatestToken]_vars

\* the administrator's sessions across password changes and lockouts
NextRevocation ==
    \/ Bootstrap
    \/ \E password \in Passwords : Login(adminEmail, password)
    \/ \E current \in Passwords, new \in Passwords : ChangePassword(1, current, new)
    \/ \E token \in Presentable : ValidateSession(token)

SpecRevocation == Init /\ [][NextRevocation]_vars

\* ------------------------------------------------------------------ claims

\* the account a Login that has just returned was resolved to, before it ran
LoginAccount == LoginUser(users, ret'.s1)

\* C1: once an account has had 5 consecutive Logins return InvalidCredentials,
\* every Login for it made fewer than 30 minutes after the 5th failure
\* returns UserLocked, whatever password is supplied.
C1_LockedAfterFiveFailures ==
    [][(/\ ret'.op = "Login"
        /\ LoginAccount # NoUser
        /\ fifthAt[LoginAccount] # NoTime
        /\ now - fifthAt[LoginAccount] < 30)
       => ret'.result = "UserLocked"]_vars

\* a Login with the account's own password was refused 29 minutes after the
\* 5th failure
C1_Witness ==
    /\ ret.op = "Login"
    /\ ret.result = "UserLocked"
    /\ ret.user # NoUser
    /\ VerifyPassword(users[ret.user], ret.s2)
    /\ consec[ret.user] = 5
    /\ fifthAt[ret.user] # NoTime
    /\ now - fifthAt[ret.user] = 29

\* C2: a Login with the correct password made more than 30 minutes after the
\* lock was set succeeds, resets failed_login_attempts to 0, clears
\* locked_until and returns a valid session expiring tokenExpiryMin (60)
\* minutes after the login.
C2_LoginAfterLockExpired ==
    [][(/\ ret'.op = "Login"
        /\ LoginAccount # NoUser
        /\ lockedAt[LoginAccount] # NoTime
        /\ now - lockedAt[LoginAccount] > 30
        /\ VerifyPassword(users[LoginAccount], ret'.s2))
       => /\ ret'.result = "ok"
          /\ ret'.user = LoginAccount
          /\ users'[LoginAccount].failedLoginAttempts = 0
          /\ users'[LoginAccount].lockedUntil = NoTime
          /\ ret'.exp = now + 60
          /\ \E s \in sessions' :
                 /\ s.token = ret'.token
                 /\ s.userId = LoginAccount
                 /\ s.isValid
                 /\ s.expiresAt = now + 60
          /\ \A s \in sessions : s.token # ret'.token]_vars

\* a Login succeeded on an account it found with a lock that had run out
C2_Witness ==
    /\ ret.op = "Login"
    /\ ret.result = "ok"
    /\ ret.seenLock # NoTime
    /\ now > ret.seenLock
    /\ users[ret.user].failedLoginAttempts = 0
    /\ users[ret.user].lockedUntil = NoTime

\* C3: a valid session with expiry T whose user is active is accepted by
\* ValidateSession at T - 1 and refused with InvalidToken at T + 1.
C3_ExpiryBoundary ==
    \A s \in sessions :
        (/\ ret.op = "ValidateSession"
         /\ ret.token = s.token
         /\ s.isValid
         /\ ~UserRejected(users, s.userId))
        => /\ (now = s.expiresAt - 1 => ret.result = "ok")
           /\ (now = s.expiresAt + 1 => ret.result = "InvalidToken")

\* a valid session of an active user was refused one minute after its expiry
C3_Witness ==
    \E s \in sessions :
        /\ ret.op = "ValidateSession"
        /\ ret.token = s.token
        /\ s.isValid
        /\ ~UserRejected(users, s.userId)
        /\ now = s.expiresAt + 1
        /\ ret.result = "InvalidToken"

\* the same session was accepted one minute before its expiry
C3_WitnessBefore ==
    \E s \in sessions :
        /\ ret.op = "ValidateSession"
        /\ ret.token = s.token
        /\ now = s.expiresAt - 1
        /\ ret.result = "ok"

\* C4: ValidateSession succeeds only if the session exists, has
\* is_valid = true and the current time is strictly less than expires_at.
C4_UsableOnlyBeforeExpiry ==
    (ret.op = "ValidateSession" /\ ret.result = "ok")
    => \E s \in sessions : s.token = ret.token /\ s.isValid /\ now < s.expiresAt

\* C5: Logout never returns an error and leaves the session with
\* is_valid = false; on a session that is already invalid, or absent, it
\* changes no session's validity.
C5_LogoutIdempotent ==
    [][ret'.op = "Logout"
       => /\ ret'.result = "ok"
          /\ \A s \in sessions' : s.token = ret'.token => ~s.isValid
          /\ \A t \in Presentable :
                 t # ret'.token => Validity(sessions', t) = Validity(sessions, t)
          /\ Validity(sessions, ret'.token) # "valid"
                 => Validity(sessions', ret'.token) = Validity(sessions, ret'.token)]_vars

\* a Logout returned for a session an earlier Logout had already invalidated
C5_Witness ==
    /\ ret.op = "Logout"
    /\ ret.result = "ok"
    /\ ret.seenValid = "invalid"
    /\ ret.token \in loggedOut
    /\ Validity(sessions, ret.token) = "invalid"

\* C9: Register with an email that exists returns EmailAlreadyExists whatever
\* the username; with a fresh email and an existing username it returns
\* UsernameAlreadyExists; neither creates or changes a user.
C9_RegisterConflicts ==
    [][ret'.op = "Register"
       => /\ GetByEmail(users, ret'.s2) # NoUser
                 => ret'.result = "EmailAlreadyExists" /\ users' = users
          /\ (GetByEmail(users, ret'.s2) = NoUser /\ GetByUsername(users, ret'.s1) # NoUser)
                 => ret'.result = "UsernameAlreadyExists" /\ users' = users]_vars

\* a Register whose email and username were both taken got EmailAlreadyExists
C9_Witness ==
    /\ ret.op = "Register"
    /\ ret.result = "EmailAlreadyExists"
    /\ GetByEmail(users, ret.s2) # NoUser
    /\ GetByUsername(users, ret.s1) # NoUser

\* a Register with a fresh email and a taken username got UsernameAlreadyExists
C9_WitnessUsername ==
    /\ ret.op = "Register"
    /\ ret.result = "UsernameAlreadyExists"
    /\ GetByEmail(users, ret.s2) = NoUser

\* C6: a ValidateSession that starts after a Logout of its token has
\* completed returns InvalidToken, whatever else is being served; and no
\* step turns a session's is_valid from false to true.
C6_LogoutIsFinal ==
    /\ []((ret.op = "ValidateSession" /\ ret.late) => ret.result = "InvalidToken")
    /\ [](\A p \in Procs : pc[p] = "ValidateUser" => ~loc[p].late)
    /\ [][\A s \in sessions : \A s2 \in sessions' :
              (s2.token = s.token /\ ~s.isValid) => ~s2.isValid]_vars

\* a validation begun after the Logout of a stored, unexpired session was
\* refused while another validation was in flight
C6_Witness ==
    /\ ret.op = "ValidateSession"
    /\ ret.late
    /\ ret.result = "InvalidToken"
    /\ ret.token \in loggedOut
    /\ \E s \in sessions : s.token = ret.token /\ ~s.isValid /\ now < s.expiresAt
    /\ \E p \in Procs : pc[p] = "ValidateUser"

\* C7: no increment of concurrent failed Logins is lost: failed_login_attempts
\* equals the number of password checks that failed for the account since
\* its counter was last reset.
C7_NoLostIncrement ==
    \A u \in 1..Len(users) : users[u].failedLoginAttempts = failCount[u]

\* a failed Login returned with the counter two above the value it had read:
\* another failed Login was counted while it was being served
C7_Witness ==
    /\ ret.op = "Login"
    /\ ret.result = "InvalidCredentials"
    /\ ret.user # NoUser
    /\ users[ret.user].failedLoginAttempts = ret.seenFailed + 2
    /\ failCount[ret.user] = ret.seenFailed + 2
    /\ \A p \in Procs : pc[p] = "idle"

\* C8: the increment that reaches the threshold and the setting of
\* locked_until are one indivisible step: no other request reads the user row
\* between the two.
C8_IncrementAndLockIndivisible ==
    \A p \in Procs : ~loc[p].torn

\* C10: no two users share an email or a username; a Register whose INSERT
\* meets a row with its email or username creates nothing and returns an
\* error.
C10_UniqueUsers ==
    /\ [](\A i, j \in 1..Len(users) :
              i # j => /\ users[i].email # users[j].email
                       /\ users[i].username # users[j].username)
    /\ [][\A p \in Procs :
              (/\ pc[p] = "RegisterCreate"
               /\ pc'[p] = "idle"
               /\ \E i \in 1..Len(users) : \/ users[i].email = loc[p].s2
                                           \/ users[i].username = loc[p].s1)
              => /\ users' = users
                 /\ ret'.op = "Register"
                 /\ ret'.result \notin {"", "ok"}]_vars

\* of two registrations racing for one email, the second INSERT was refused
C10_Witness ==
    /\ ret.op = "Register"
    /\ ret.result = "ConstraintViolation"
    /\ Cardinality({i \in 1..Len(users) : users[i].email = ret.s2}) = 1
    /\ Len(users) = 2

C12_ValidateSessionOutcomes ==
    ret.op = "ValidateSession"
    => LET found == {s \in sessions : s.token = ret.token}
           badSession == \/ found = {}
                         \/ \E s \in found : ~s.isValid \/ now > s.expiresAt
           badUser == \E s \in found : \/ s.userId \notin 1..Len(users)
                                       \/ ~users[s.userId].isActive
       IN  /\ ret.result = "InvalidToken" <=> badSession
           /\ ~badSession => (ret.result = "UserNotFound" <=> badUser)
           /\ (~badSession /\ ~badUser)
                  => /\ ret.result = "ok"
                     /\ \E s \in found : ret.user = s.userId /\ ret.exp = s.expiresAt

\* a valid, unexpired session of a deactivated user was answered UserNotFound
C12_Witness ==
    /\ ret.op = "ValidateSession"
    /\ ret.result = "UserNotFound"
    /\ \E s \in sessions : /\ s.token = ret.token
                           /\ s.isValid
                           /\ now <= s.expiresAt
                           /\ ~users[s.userId].isActive

\* C13: VerifyEmail called with the token a successful Register has just
\* returned succeeds and leaves that user verified, with no verification
\* token.
C13_RegisteredUserCanVerify ==
    [][(/\ ret.op = "Register"
        /\ ret.result = "ok"
        /\ ret'.op = "VerifyEmail"
        /\ ret'.token = ret.token)
       => /\ ret'.result = "ok"
          /\ users'[ret.user].isEmailVerified
          /\ users'[ret.user].emailVerificationToken = NoToken]_vars

\* C14: ForgotPassword for an email no user has returns success with no token
\* and changes nothing stored; for an existing user's email it returns a
\* token and stores it on that user with an expiry 24 hours (1440 minutes)
\* after the call.
C14_ForgotPasswordOutcomes ==
    [][ret'.op = "ForgotPassword"
       => LET u == GetByEmail(users, ret'.s2)
          IN  /\ ret'.result = "ok"
              /\ u = NoUser => /\ ret'.token = NoToken
                               /\ users' = users
                               /\ sessions' = sessions
                               /\ audit' = audit
              /\ u # NoUser => /\ ret'.token # NoToken
                               /\ users'[u].passwordResetToken = ret'.token
                               /\ users'[u].passwordResetExpiresAt = now + 1440
                               /\ \A v \in 1..Len(users) : v # u => users'[v] = users[v]]_vars

\* a ForgotPassword called at 23 h 59 min stored its token with the expiry a
\* day later
C14_Witness ==
    /\ ret.op = "ForgotPassword"
    /\ ret.token # NoToken
    /\ ret.user # NoUser
    /\ users[ret.user].passwordResetToken = ret.token
    /\ now = 1439
    /\ users[ret.user].passwordResetExpiresAt = now + 1440

\* C15: the Login that follows a successful ResetPassword of an unlocked
\* user succeeds with the new password and, with the old password (when the
\* new one differs from it), returns InvalidCredentials.
C15_LoginAfterReset ==
    [][(/\ ret.op = "ResetPassword"
        /\ ret.result = "ok"
        /\ ret'.op = "Login"
        /\ LoginAccount = ret.user
        /\ ~IsLocked(users[ret.user], now))
       => /\ ret'.s2 = ret.s2 => ret'.result = "ok" /\ ret'.user = ret.user
          /\ (ret'.s2 = ret.s1 /\ ret.s1 # ret.s2)
                 => ret'.result = "InvalidCredentials"]_vars

\* a Login with a password other than the one the administrator was created
\* with succeeded: only a ResetPassword can have set it
C15_Witness ==
    /\ ret.op = "Login"
    /\ ret.result = "ok"
    /\ ret.user = 1
    /\ ret.s2 # adminPassword
    /\ VerifyPassword(users[1], ret.s2)
    /\ users[1].passwordResetToken = NoToken

\* C16: ResetPassword returns InvalidToken and changes no user when no user
\* holds the token or the holder's expiry is not after the current time; a
\* successful call changes only the row of the user holding the token.
C16_ResetPasswordNeedsLiveToken ==
    [][ret'.op = "ResetPassword"
       => LET holders == {u \in 1..Len(users) :
                             /\ users[u].passwordResetToken # NoToken
                             /\ users[u].passwordResetToken = ret'.token}
              live == {u \in holders : now < users[u].passwordResetExpiresAt}
          IN  /\ live = {} => ret'.result = "InvalidToken" /\ users' = users
              /\ live # {} => ret'.result = "ok" /\ ret'.user \in live
              /\ \A u \in 1..Len(users) : u \notin live => users'[u] = users[u]]_vars

\* a token was refused exactly 24 hours after it was issued, while another
\* user existed
C16_Witness ==
    /\ ret.op = "ResetPassword"
    /\ ret.result = "InvalidToken"
    /\ Len(users) = 2
    /\ \E u \in 1..Len(users) : /\ users[u].passwordResetToken = ret.token
                                /\ ret.token # NoToken
                                /\ users[u].passwordResetExpiresAt = now

\* C17: ChangePassword sets the new password exactly when the user exists
\* and currentPassword matches the stored hash; a wrong current password
\* gives InvalidCredentials, an unknown user id UserNotFound, and both leave
\* every user record as it was.
C17_ChangePasswordNeedsCurrent ==
    [][ret'.op = "ChangePassword"
       => LET u == ret'.user
              known == u \in 1..Len(users)
          IN  /\ ~known => ret'.result = "UserNotFound" /\ users' = users
              /\ (known /\ ~VerifyPassword(users[u], ret'.s1))
                     => ret'.result = "InvalidCredentials" /\ users' = users
              /\ (known /\ VerifyPassword(users[u], ret'.s1))
                     => /\ ret'.result = "ok"
                        /\ VerifyPassword(users'[u], ret'.s2)]_vars

\* a ChangePassword with a wrong current password was refused
C17_Witness ==
    /\ ret.op = "ChangePassword"
    /\ ret.result = "InvalidCredentials"
    /\ ret.user \in 1..Len(users)
    /\ ~VerifyPassword(users[ret.user], ret.s1)
    /\ ret.s1 # ret.s2

\* C18: after a user's password has been changed, ValidateSession on a
\* token of a session that user already had returns InvalidToken.
C18_PasswordChangeRevokesSessions ==
    [][(/\ ret.op \in {"ChangePassword", "ResetPassword"}
        /\ ret.result = "ok"
        /\ ret'.op = "ValidateSession"
        /\ \E s \in sessions : s.token = ret'.token /\ s.userId = ret.user)
       => ret'.result = "InvalidToken"]_vars

\* C19: a user's locked_until goes from set to null only in the step of a
\* successful Login or a successful ResetPassword of that user.
C19_LockClearedOnlyByLoginOrReset ==
    [][\A u \in 1..Len(users) :
           (users[u].lockedUntil # NoTime /\ users'[u].lockedUntil = NoTime)
           => /\ ret'.op \in {"Login", "ResetPassword"}
              /\ ret'.result = "ok"
              /\ ret'.user = u]_vars

\* C20: a user's failed_login_attempts is lowered only by the successful
\* Login of that user, which sets it to 0.
C20_CounterLoweredOnlyByLogin ==
    [][\A u \in 1..Len(users) :
           users'[u].failedLoginAttempts < users[u].failedLoginAttempts
           => /\ users'[u].failedLoginAttempts = 0
              /\ ret'.op = "Login"
              /\ ret'.result = "ok"
              /\ ret'.user = u]_vars

\* C21: a Login that has created its session returns that session with no
\* error whether or not the audit-log write succeeds; a ValidateSession that
\* has accepted session and user returns them with no error whether or not
\* the last_active_at update succeeds.
C21_BestEffortSideEffects ==
    [][\A p \in Procs :
           /\ (pc[p] = "LoginAudit" /\ pc'[p] = "idle")
                  => /\ ret'.op = "Login"
                     /\ ret'.result = "ok"
                     /\ ret'.token = loc[p].token
                     /\ \E s \in sessions' : s.token = ret'.token /\ s.userId = loc[p].user
           /\ (pc[p] = "ValidateUser" /\ pc'[p] = "idle" /\ ~UserRejected(users, loc[p].user))
                  => /\ ret'.op = "ValidateSession"
                     /\ ret'.result = "ok"
                     /\ ret'.token = loc[p].token
                     /\ ret'.user = loc[p].user]_vars

\* a Login returned its session although no audit row had ever been written
C21_Witness ==
    /\ ret.op = "Login"
    /\ ret.result = "ok"
    /\ audit[ret.user] = 0
    /\ \E s \in sessions : s.token = ret.token /\ s.isValid

\* a ValidateSession returned ok although last_active_at was not brought up
\* to the time of the call
C21_WitnessTouch ==
    /\ ret.op = "ValidateSession"
    /\ ret.result = "ok"
    /\ \E s \in sessions : s.token = ret.token /\ s.lastActiveAt < now

\* C22: a Login whose lookup by email failed with a storage error returns
\* that error: it neither goes on to authenticate nor returns
\* InvalidCredentials.
C22_EmailLookupErrorReturned ==
    [][\A p \in Procs :
           (/\ pc[p] = "LoginByUsername"
            /\ loc[p].err = "GetByEmail"
            /\ pc'[p] # "LoginByUsername")
           => /\ pc'[p] = "idle"
              /\ ret'.op = "Login"
              /\ ret'.result = "Infrastructure"]_vars

\* C23: VerifyEmail and ResetPassword return InvalidToken only when no row
\* matches the token condition; when the token lookup itself fails in
\* storage they return an infrastructure error.
C23_LookupErrorIsInfrastructure ==
    (ret.op \in {"VerifyEmail", "ResetPassword"} /\ ret.fault # "")
    => ret.result = "Infrastructure"

\* C24: after the process has received its shutdown signal the cleanup loop
\* makes no further DeleteExpiredSessions call while the process shuts down.
C24_NoCleanupDuringShutdown ==
    [][pc[MainThread] = "shuttingDown" => ret'.op # "DeleteExpiredSessions"]_vars

\* C25: a tick whose DeleteExpiredSessions fails ends neither the loop nor
\* the process: the loop stays at its select, the process goes on as it
\* was, and while the process runs the next tick can be taken.
C25_FailedTickKeepsLoop ==
    /\ []((booted /\ pc[MainThread] # "exited")
          => (pc[CleanupTask] = "select" /\ ENABLED Cleanup))
    /\ [][(ret'.op = "DeleteExpiredSessions" /\ ret'.fault # "")
          => /\ pc'[CleanupTask] = "select"
             /\ pc'[MainThread] = pc[MainThread]
             /\ sessions' = sessions]_vars

\* a tick has just failed, with an expired session still stored for the
\* next tick to delete
C25_Witness ==
    /\ ret.op = "DeleteExpiredSessions"
    /\ ret.fault # ""
    /\ pc[CleanupTask] = "select"
    /\ \E s \in sessions : s.expiresAt < now

\* C26: the expires_at of a session is set when the session is created, to
\* the creation time plus the configured lifetime, and no operation changes
\* it afterwards: every session that is stored before and after a step has
\* the same expires_at, a successful ValidateSession included.
C26_ExpiryFixedAtCreation ==
    [][\A s2 \in sessions' :
           IF \E s \in sessions : s.token = s2.token
           THEN \A s \in sessions : s.token = s2.token => s2.expiresAt = s.expiresAt
           ELSE s2.expiresAt = now + tokenExpiryMin]_vars

\* a validation succeeded some time after the login and moved last_active_at,
\* while the session still expires at the time set at its creation
C26_Witness ==
    /\ ret.op = "ValidateSession"
    /\ ret.result = "ok"
    /\ now > 0
    /\ \E s \in sessions : /\ s.token = ret.token
                           /\ s.lastActiveAt = now
                           /\ s.expiresAt < now + tokenExpiryMin

\* every session of a user was invalidated at once, some time after the
\* login, and keeps its expires_at
C26_WitnessAll ==
    /\ ret.op = "InvalidateAllForUser"
    /\ now > 0
    /\ \E s \in sessions : /\ s.userId = ret.user
                           /\ ~s.isValid
                           /\ s.lastActiveAt = now
                           /\ s.expiresAt < now + tokenExpiryMin

\* C27: every successful ChangePassword or ResetPassword stores the new hash
\* and clears the account's reset token and expiry in one write, after which
\* no token finds the account; a reset token that was pending when
\* ChangePassword succeeded is rejected with InvalidToken by the next
\* ResetPassword.
C27_PasswordUpdateClearsResetToken ==
    [][/\ (ret'.op \in {"ChangePassword", "ResetPassword"} /\ ret'.result = "ok")
          => /\ users'[ret'.user].passwordHash = Hash(ret'.s2)
             /\ users'[ret'.user].passwordResetToken = NoToken
             /\ users'[ret'.user].passwordResetExpiresAt = NoTime
             /\ \A token \in Presentable :
                    ResetPasswordUser(users', token, now) # ret'.user
       /\ (/\ ret.op = "ChangePassword"
           /\ ret.result = "ok"
           /\ ret.token # NoToken
           /\ ret'.op = "ResetPassword"
           /\ ret'.token = ret.token)
          => ret'.result = "InvalidToken"]_vars

\* a ChangePassword succeeded on an account whose reset token was still
\* good, and the token is gone
C27_Witness ==
    /\ ret.op = "ChangePassword"
    /\ ret.result = "ok"
    /\ ret.token # NoToken
    /\ now < ret.exp
    /\ users[ret.user].passwordResetToken = NoToken
    /\ ResetPasswordUser(users, ret.token, now) = NoUser

\* C28: DeleteExpiredSessions removes exactly the sessions whose expires_at
\* is strictly before the current time, valid or not, returns how many it
\* removed and leaves every other session as it was; no session that
\* ValidateSession would accept at that instant is deleted, and invalidated
\* sessions that have not expired stay stored.
C28_CleanupDeletesExactlyExpired ==
    [][(ret'.op = "DeleteExpiredSessions" /\ ret'.fault = "")
       => /\ sessions' = {s \in sessions : s.expiresAt >= now}
          /\ ret'.exp = Cardinality({s \in sessions : s.expiresAt < now})
          /\ \A s \in sessions : ~SessionRejected({s}, now) => s \in sessions'
          /\ \A s \in sessions : (~s.isValid /\ s.expiresAt >= now) => s \in sessions'
          /\ \A s \in sessions : (s.isValid /\ s.expiresAt < now) => s \notin sessions']_vars

\* a cleanup removed an expired session and left an invalidated one that
\* had not expired
C28_Witness ==
    /\ ret.op = "DeleteExpiredSessions"
    /\ ret.exp >= 1
    /\ \E s \in sessions : ~s.isValid /\ s.expiresAt >= now

\* a cleanup ran at the very instant a valid session expires and kept it
C28_WitnessBoundary ==
    /\ ret.op = "DeleteExpiredSessions"
    /\ ret.fault = ""
    /\ \E s \in sessions : s.isValid /\ s.expiresAt = now

\* C29: Login resolves its identifier as an email first. When a user has
\* the identifier as email, the call acts on that user alone, even if the
\* identifier is also another user's username: the password is checked
\* against that user, only that user's row changes, and a session is issued
\* for that user only. The username lookup decides only when no user has
\* the identifier as email.
C29_EmailBeforeUsername ==
    [][ret'.op = "Login"
       => LET a == GetByEmail(users, ret'.s1)
          IN  IF a # NoUser
              THEN /\ ret'.user = a
                   /\ (ret'.result = "ok")
                          <=> (~IsLocked(users[a], now) /\ VerifyPassword(users[a], ret'.s2))
                   /\ \A u \in 1..Len(users) : u # a => users'[u] = users[u]
                   /\ \A s \in sessions' \ sessions : s.userId = a
                   /\ \A u \in UserIds : u # a => audit'[u] = audit[u]
              ELSE ret'.user = GetByUsername(users, ret'.s1)]_vars

\* the identifier is one user's email and another's username; the other
\* user's password was sent, and the call failed on the user with the email
C29_Witness ==
    /\ ret.op = "Login"
    /\ ret.result = "InvalidCredentials"
    /\ GetByEmail(users, ret.s1) # NoUser
    /\ GetByUsername(users, ret.s1) \notin {NoUser, GetByEmail(users, ret.s1)}
    /\ VerifyPassword(users[GetByUsername(users, ret.s1)], ret.s2)
    /\ ret.user = GetByEmail(users, ret.s1)
    /\ users[ret.user].failedLoginAttempts >= 1
    /\ users[GetByUsername(users, ret.s1)].failedLoginAttempts = 0

\* C30: InTransaction commits exactly when the supplied function returns no
\* error. When the function returns an error nothing it wrote takes effect
\* and the caller gets an error: the function's, or the rollback's if the
\* rollback fails as well. A Commit that fails is reported as an error, and
\* nil is returned only when the function's writes were committed.
C30_CommitIffNoError ==
    [][ret'.op = "InTransaction"
       => /\ (ret'.result = "ok")
                 <=> (ret'.s1 = "" /\ ret'.fault \notin {"Begin", "Commit"})
          /\ ret'.result = "ok" => sessions' = Invalidate(sessions, ret'.token, now)
          /\ ret'.s1 # ""
                 => /\ sessions' = sessions
                    /\ ret'.result = IF ret'.fault = "Rollback"
                                     THEN "error rolling back transaction"
                                     ELSE "fn error"
          /\ ret'.fault = "Begin" => sessions' = sessions
          /\ (ret'.s1 = "" /\ ret'.fault = "Commit")
                 => ret'.result = "error committing transaction"]_vars

\* the function invalidated a valid session and returned an error, and the
\* rollback failed as well: the caller got the rollback's error and the
\* session is still valid
C30_Witness ==
    /\ ret.op = "InTransaction"
    /\ ret.s1 = "fn error"
    /\ ret.fault = "Rollback"
    /\ ret.result = "error rolling back transaction"
    /\ ret.seenValid = "valid"
    /\ \E s \in sessions : s.token = ret.token /\ s.isValid

\* C31: a Login on an account whose locked_until lies in the future returns
\* UserLocked and changes nothing: the counter and locked_until stay as they
\* are, and no session, token or audit entry is created, whatever password
\* was sent.
C31_LockedLoginChangesNothing ==
    [][(/\ ret'.op = "Login"
        /\ LoginAccount # NoUser
        /\ users[LoginAccount].lockedUntil # NoTime
        /\ now < users[LoginAccount].lockedUntil)
       => /\ ret'.result = "UserLocked"
          /\ ret'.token = NoToken
          /\ users' = users
          /\ sessions' = sessions
          /\ audit' = audit
          /\ issued' = issued]_vars

\* a Login with a wrong password was refused on a locked account, and the
\* counter is still at the threshold
C31_Witness ==
    /\ ret.op = "Login"
    /\ ret.result = "UserLocked"
    /\ ret.user # NoUser
    /\ ~VerifyPassword(users[ret.user], ret.s2)
    /\ users[ret.user].failedLoginAttempts = LockThreshold
    /\ users[ret.user].lockedUntil = ret.seenLock
    /\ now < users[ret.user].lockedUntil

\* C32: the expiry of a lock does not reset failed_login_attempts. Time
\* passing changes no user row; a Login with a wrong password made once
\* locked_until has passed, with the counter still at 5 or more, raises the
\* counter by one, above 5, and sets locked_until 30 minutes ahead; the
\* counter goes down only to 0, and only by a Login that succeeded.
C32_ExpiredLockKeepsCounter ==
    [][/\ now' # now => users' = users
       /\ (/\ ret'.op = "Login"
           /\ LoginAccount # NoUser
           /\ users[LoginAccount].lockedUntil # NoTime
           /\ now >= users[LoginAccount].lockedUntil
           /\ users[LoginAccount].failedLoginAttempts >= 5
           /\ ~VerifyPassword(users[LoginAccount], ret'.s2))
          => /\ ret'.result = "InvalidCredentials"
             /\ users'[LoginAccount].failedLoginAttempts
                    = users[LoginAccount].failedLoginAttempts + 1
             /\ users'[LoginAccount].failedLoginAttempts > 5
             /\ users'[LoginAccount].lockedUntil = now + 30
       /\ \A u \in 1..Len(users) :
              users'[u].failedLoginAttempts < users[u].failedLoginAttempts
              => /\ users'[u].failedLoginAttempts = 0
                 /\ ret'.op = "Login"
                 /\ ret'.result = "ok"
                 /\ ret'.user = u]_vars

\* one failed Login after the first lock had run out: the counter stands at
\* 6 and the account is locked again from this moment
C32_Witness ==
    /\ ret.op = "Login"
    /\ ret.result = "InvalidCredentials"
    /\ ret.seenLock # NoTime
    /\ now >= ret.seenLock
    /\ users[ret.user].failedLoginAttempts = 6
    /\ users[ret.user].lockedUntil = now + 30

\* C33: whenever Login returns an error, the call has added no session to
\* the store: the store holds the sessions it held when the call began, and
\* no valid session with the call's token is left behind.
C33_FailedLoginLeavesNoSession ==
    [][\A p \in Procs :
           (/\ pc[p] # "idle"
            /\ pc'[p] = "idle"
            /\ ret'.op = "Login"
            /\ ret'.result # "ok")
           => ~\E s \in sessions' : /\ loc[p].token # NoToken
                                    /\ s.token = loc[p].token
                                    /\ s.userId = loc[p].user]_vars

\* C34: in every state in which no request is being served, a user whose
\* locked_until is set has failed_login_attempts >= 5; a successful Login
\* served at the same time as a failed one never leaves the counter at 0
\* with the account locked.
C34_LockedImpliesThreshold ==
    (\A p \in Procs : pc[p] = "idle")
    => \A u \in 1..Len(users) :
           users[u].lockedUntil # NoTime => users[u].failedLoginAttempts >= 5

\* C38: starting from a counter of 0, at most 5 wrong passwords are checked
\* against an account before it is locked, however many Logins for it are
\* served at the same time: while the first lock is being established
\* failed_login_attempts does not exceed 5.
C38_AtMostFiveGuesses ==
    \A u \in 1..Len(users) :
        /\ users[u].failedLoginAttempts <= 5
        /\ failCount[u] <= 5

\* C35: a password-reset token is used once: no two ResetPassword calls with
\* the same token both succeed, also when they are served at the same time.
C35_ResetTokenSingleUse ==
    [][~(/\ ret.op = "ResetPassword"
         /\ ret.result = "ok"
         /\ ret'.op = "ResetPassword"
         /\ ret'.result = "ok"
         /\ ret'.token = ret.token)]_vars

\* C36: a user has at most one usable reset token at a time. A ForgotPassword
\* for a known email stores its new token and expiry over the ones stored
\* before; a ResetPassword succeeds only with the token that is stored, so
\* with an earlier token it returns InvalidToken.
C36_OnlyLatestResetToken ==
    [][/\ (ret'.op = "ForgotPassword" /\ ret'.user # NoUser)
          => /\ ret'.token # NoToken
             /\ ret'.token \notin {users[u].passwordResetToken : u \in 1..Len(users)}
             /\ users'[ret'.user].passwordResetToken = ret'.token
             /\ users'[ret'.user].passwordResetExpiresAt = now + ResetExpiryMinutes
       /\ (ret'.op = "ResetPassword" /\ ret'.result = "ok")
          => ret'.token = users[ret'.user].passwordResetToken
       /\ (ret'.op = "ResetPassword" /\ ret'.result # "ok")
          => ret'.result = "InvalidToken" /\ users' = users]_vars

\* the first of two tokens issued to the administrator was refused before
\* it would have expired, while the second is stored and still good
C36_Witness ==
    /\ ret.op = "ResetPassword"
    /\ ret.result = "InvalidToken"
    /\ ret.token = 1
    /\ now < ResetExpiryMinutes
    /\ users[1].passwordResetToken = 2
    /\ now < users[1].passwordResetExpiresAt

\* C37: Login issues no session for a user whose is_active is false: every
\* session a successful Login returns is accepted by a ValidateSession made
\* right after it.
C37_LoginRequiresActiveUser ==
    [][/\ (ret'.op = "Login" /\ ret'.result = "ok") => users[ret'.user].isActive
       /\ (/\ ret.op = "Login"
           /\ ret.result = "ok"
           /\ ret'.op = "ValidateSession"
           /\ ret'.token = ret.token)
          => ret'.result = "ok"]_vars

====
